---- MODULE Spec2Model ----
(***************************************************************************)
(* ktme MCP server: the JSON-RPC protocol engine and its stream loops.     *)
(*                                                                         *)
(* Three handlers of the repository are modelled side by side:             *)
(*   "protocol"  McpProtocolHandler::handle_message  (src/mcp/protocol.rs) *)
(*   "mcp"       McpServer::run_stdio_server + handle_message (server.rs)  *)
(*   "stdio"     StdioServer::run + handle_message   (stdio_server.rs)     *)
(*                                                                         *)
(* A stream session (Spec) starts from cli `start` (cli/commands/mcp.rs),   *)
(* which may print on the output stream before the loop runs; the network  *)
(* loop McpServer::run_sse_server behind `mcp start --daemon` is SpecNet.   *)
(*                                                                         *)
(* Strings built with format! are modelled as the sequence of their        *)
(* pieces, e.g. format!("Unknown tool: {}", n) is <<"Unknown tool: ", n>>. *)
(* An Option is a sequence of length 0 (None) or 1 (Some).                 *)
(***************************************************************************)
EXTENDS Integers, Sequences, FiniteSets, TLC

VARIABLES
    started,    \* how the session was started: the command line, or a direct call
    config,     \* the ServerConfig of the McpServer: its transport and port
    server,     \* the handler this session runs
    server_name,\* the server name the handler was configured with
    pc,         \* "loop" while the session reads input, "exited" afterwards
    exit,       \* how the loop returned: "none", "Ok" or "Err"
    nread,      \* number of lines read (calls made) so far
    cur,        \* the line handled last
    curTool,    \* what the tool did (or would have done) for that line
    curWrite,   \* the outcomes of the writes of that line
    produced,   \* Option: the Response the parse step or handle_message made for it
    ret,        \* what handle_message returned for it: "Ok" or "Err"
    ran,        \* the McpTools functions that ran for it
    wrote,      \* the lines written to the output stream for it
    out,        \* the output stream
    toolCalls,  \* every McpTools function run so far, in order
    netpc,      \* run_sse_server: "off", "binding", "accepting" or "returned"
    conns,      \* run_sse_server: the connections accepted so far, in order
    stopCalls   \* the calls of McpServer::stop made so far

streamVars == <<started, config, server, server_name, pc, exit, nread, cur, curTool, curWrite,
                produced, ret, ran, wrote, out, toolCalls>>

netVars == <<netpc, conns, stopCalls>>

vars == <<started, config, server, server_name, pc, exit, nread, cur, curTool, curWrite,
          produced, ret, ran, wrote, out, toolCalls, netpc, conns, stopCalls>>

(* ---------------------------------------------------------------------- *)
(* Bounds                                                                  *)
(* ---------------------------------------------------------------------- *)

\* number of input lines (or direct calls) of one session
MaxLines == 2

(* ---------------------------------------------------------------------- *)
(* JSON documents                                                          *)
(* ---------------------------------------------------------------------- *)

\* a key that is missing from a document / a value that is not a string
Absent == "<absent>"
NonString == "<nonstring>"
\* the JSON value null
Null == "null"

Handlers == {"protocol", "mcp", "stdio"}

\* values of the `id` member of the input documents
IdValues == {Absent, Null, "1", "2"}

\* values of the `method` member of the input documents
MethodValues ==
    {Absent, NonString, "", "initialize", "tools/list", "tools/call", "ping", "unknown_method"}

\* values of `params.name` tried by the inputs
ToolNamesTried ==
    {Absent, "nope", "read_changes", "list_services", "update_documentation",
     "search_services", "get_repository_info"}

\* params of a tools/call: whether `params` is there, its `name`, and whether
\* `arguments` carries the required string arguments
ParamValues ==
    {[present |-> FALSE, name |-> Absent, args |-> FALSE]}
    \cup [present : {TRUE}, name : ToolNamesTried, args : BOOLEAN]

NoParams == [present |-> FALSE, name |-> Absent, args |-> FALSE]

\* the methods tried with the second non-null id
SecondIdMethods == {"ping", "unknown_method"}

\* the raw input lines: text that is no JSON document, a blank line, a JSON
\* document that is no object, and JSON objects
Lines ==
    {[shape |-> s, id |-> Absent, method |-> Absent, params |-> NoParams] :
        s \in {"garbage", "blank", "scalar"}}
    \cup {[shape |-> "object", id |-> i, method |-> m, params |-> p] :
            i \in IdValues \ {"2"}, m \in MethodValues \ {"tools/call"}, p \in {NoParams}}
    \cup {[shape |-> "object", id |-> i, method |-> m, params |-> p] :
            i \in {"2"}, m \in SecondIdMethods, p \in {NoParams}}
    \cup {[shape |-> "object", id |-> i, method |-> "tools/call", params |-> p] :
            i \in IdValues \ {"2"}, p \in ParamValues}

\* outcome of an McpTools function: Ok(s) or Err(e), e.to_string() = msg
ToolResults == {[ok |-> TRUE, msg |-> "out"], [ok |-> FALSE, msg |-> "boom"]}

\* outcomes of one send_response that include the failure after the document
\* has reached the stream (the write of the newline or the flush fails)
WriteModes == {"ok", "err", "partial"}

\* outcome of one send_response on the output stream
WriteResults == {"ok", "err"}

\* serde_json::from_str: Err for text that is no JSON document
from_str(line) ==
    IF line.shape \in {"garbage", "blank"}
    THEN [ok |-> FALSE, value |-> line]
    ELSE [ok |-> TRUE, value |-> line]

\* Value::get(key): None unless the value is an object that has the key
get_id(request) ==
    IF request.shape = "object" /\ request.id # Absent THEN <<request.id>> ELSE <<>>

\* request.get("method").and_then(|m| m.as_str()).unwrap_or("")
get_method(request) ==
    IF request.shape = "object" /\ request.method \notin {Absent, NonString}
    THEN request.method ELSE ""

\* params.get("name").and_then(|n| n.as_str()).unwrap_or("")
get_tool_name(request) ==
    IF request.shape = "object" /\ request.params.present
       /\ request.params.name \notin {Absent, NonString}
    THEN request.params.name ELSE ""

\* arguments.get(<required>).and_then(|s| s.as_str()) is Some
has_argument(request) ==
    request.shape = "object" /\ request.params.present /\ request.params.args

\* json!({"id": id}) for id : Option<&Value>: None serializes as null
id_json(id) == IF id = <<>> THEN Null ELSE id[1]

(* ---------------------------------------------------------------------- *)
(* Responses                                                               *)
(* ---------------------------------------------------------------------- *)

NoResult ==
    [shape |-> "none", tools |-> <<>>, text |-> <<>>,
     protocolVersion |-> "", serverName |-> "", serverVersion |-> ""]

EmptyResult == [NoResult EXCEPT !.shape = "empty"]

NoError == [code |-> 0, message |-> "", hasData |-> FALSE, data |-> <<>>]

ResultResponse(id, result) ==
    [jsonrpc |-> "2.0", id |-> id, hasResult |-> TRUE, result |-> result,
     hasError |-> FALSE, error |-> NoError]

\* an error Response that also carries a `result` member
ErrorResponse_with_result(id, code, message, hasData, data) ==
    [jsonrpc |-> "2.0", id |-> id, hasResult |-> TRUE, result |-> EmptyResult,
     hasError |-> TRUE,
     error |-> [code |-> code, message |-> message, hasData |-> hasData, data |-> data]]

ErrorResponse(id, code, message, hasData, data) ==
    [jsonrpc |-> "2.0", id |-> id, hasResult |-> FALSE, result |-> NoResult,
     hasError |-> TRUE,
     error |-> [code |-> code, message |-> message, hasData |-> hasData, data |-> data]]

InitializeResult(name, version) ==
    [NoResult EXCEPT !.shape = "initialize", !.protocolVersion = "2024-11-05",
                     !.serverName = name, !.serverVersion = version]

ToolsResult(tools) == [NoResult EXCEPT !.shape = "tools", !.tools = tools]

ContentResult(text) == [NoResult EXCEPT !.shape = "content", !.text = text]

(* ---------------------------------------------------------------------- *)
(* Tool catalog and McpTools                                               *)
(* ---------------------------------------------------------------------- *)

Tool(name, required) == [name |-> name, required |-> required]

\* get_tools_list gone stale: the catalog before the search and workflow tools
get_tools_list_stale ==
    << Tool("read_changes", <<"source">>),
       Tool("get_service_mapping", <<"service">>),
       Tool("list_services", <<>>),
       Tool("generate_documentation", <<"service", "changes">>),
       Tool("update_documentation", <<"service", "doc_path", "content">>) >>

\* McpProtocolHandler::get_tools_list
get_tools_list ==
    << Tool("read_changes", <<"source">>),
       Tool("get_service_mapping", <<"service">>),
       Tool("list_services", <<>>),
       Tool("generate_documentation", <<"service", "changes">>),
       Tool("update_documentation", <<"service", "doc_path", "content">>),
       Tool("search_services", <<"query">>),
       Tool("search_by_feature", <<"feature">>),
       Tool("search_by_keyword", <<"keyword">>),
       Tool("automated_documentation_workflow", <<"service", "source">>),
       Tool("detect_service_name", <<>>),
       Tool("get_repository_info", <<>>) >>

\* the `tools` vector of McpServer::handle_message
McpServerTools ==
    << Tool("read_changes", <<"source">>),
       Tool("get_service_mapping", <<"service">>),
       Tool("list_services", <<>>),
       Tool("generate_documentation", <<"service", "changes">>),
       Tool("update_documentation", <<"service", "doc_path", "content">>),
       Tool("search_services", <<"query">>),
       Tool("search_by_feature", <<"feature">>),
       Tool("search_by_keyword", <<"keyword">>),
       Tool("automated_documentation_workflow", <<"service", "source">>),
       Tool("detect_service_name", <<>>),
       Tool("get_repository_info", <<>>) >>

\* the `tools` vector of StdioServer::handle_message
StdioServerTools ==
    << Tool("read_changes", <<"source">>),
       Tool("get_service_mapping", <<"service">>),
       Tool("list_services", <<>>),
       Tool("generate_documentation", <<"service", "changes">>),
       Tool("update_documentation", <<"service", "doc_path", "content">>) >>

\* tools whose match arm runs the tool only `if let Some(arg)`, with the
\* name of that argument
CheckedArgument ==
    [read_changes |-> "source", get_service_mapping |-> "service",
     search_services |-> "query", search_by_feature |-> "feature",
     search_by_keyword |-> "keyword"]

ArgCheckedTools == DOMAIN CheckedArgument

\* result of a dispatch: Ok(text) or Err(e) with e.to_string() = text, and the
\* McpTools functions that ran
Dispatch(ok, text, calls) == [ok |-> ok, text |-> text, calls |-> calls]

\* KtmeError::InvalidInput(msg).to_string()
InvalidInput(msg) == <<"Invalid input: ">> \o msg

\* McpTools::<name>(..): the tool runs and ends as the environment decides
McpToolsCall(name, tr) ==
    IF name = "list_services" /\ tr.ok
    THEN Dispatch(TRUE, <<"Services: ", tr.msg>>, <<name>>)
    ELSE Dispatch(tr.ok, <<tr.msg>>, <<name>>)

\* execute_tool without its "get_repository_info" arm
execute_tool_missing_arm(tool_name, request, tr) ==
    IF tool_name \in ArgCheckedTools
    THEN IF has_argument(request)
         THEN McpToolsCall(tool_name, tr)
         ELSE Dispatch(FALSE,
                InvalidInput(<<"Missing '", CheckedArgument[tool_name], "' parameter">>),
                <<>>)
    ELSE IF tool_name \in {"list_services", "generate_documentation",
                           "update_documentation", "automated_documentation_workflow",
                           "detect_service_name"}
    THEN McpToolsCall(tool_name, tr)
    ELSE Dispatch(FALSE, InvalidInput(<<"Unknown tool: ", tool_name>>), <<>>)

\* McpProtocolHandler::execute_tool
execute_tool(tool_name, request, tr) ==
    IF tool_name \in ArgCheckedTools
    THEN IF has_argument(request)
         THEN McpToolsCall(tool_name, tr)
         ELSE Dispatch(FALSE,
                InvalidInput(<<"Missing '", CheckedArgument[tool_name], "' parameter">>),
                <<>>)
    ELSE IF tool_name \in {"list_services", "generate_documentation",
                           "update_documentation", "automated_documentation_workflow",
                           "detect_service_name", "get_repository_info"}
    THEN McpToolsCall(tool_name, tr)
    ELSE Dispatch(FALSE, InvalidInput(<<"Unknown tool: ", tool_name>>), <<>>)

(* ---------------------------------------------------------------------- *)
(* McpProtocolHandler (src/mcp/protocol.rs)                                *)
(* ---------------------------------------------------------------------- *)

\* the name and version the handler is constructed with
ServerName == server_name
ServerVersion == "CARGO_PKG_VERSION"

\* what a handler call comes to: the Response it returns or sends (an
\* Option), and the McpTools functions it ran
Handled(resp, calls) == [resp |-> resp, calls |-> calls]

\* id.is_none() || id.unwrap().is_null()
is_notification(id) == id = <<>> \/ id[1] = Null

\* handle_initialize answering with a fixed name instead of self.server_name
handle_initialize_fixed_name(id, notification) ==
    IF notification THEN Handled(<<>>, <<>>)
    ELSE Handled(<<ResultResponse(id_json(id),
                      InitializeResult("ktme-mcp-server", ServerVersion))>>, <<>>)

handle_initialize(id, notification) ==
    IF notification THEN Handled(<<>>, <<>>)
    ELSE Handled(<<ResultResponse(id_json(id),
                      InitializeResult(ServerName, ServerVersion))>>, <<>>)

handle_tools_list(id, notification) ==
    IF notification THEN Handled(<<>>, <<>>)
    ELSE Handled(<<ResultResponse(id_json(id), ToolsResult(get_tools_list))>>, <<>>)

\* handle_tools_call without its early return for notifications
handle_tools_call_unguarded(request, id, notification, tr) ==
    LET d == execute_tool(get_tool_name(request), request, tr)
    IN  IF d.ok
        THEN Handled(<<ResultResponse(id_json(id), ContentResult(d.text))>>, d.calls)
        ELSE Handled(<<ErrorResponse(id_json(id), -32000, "Tool execution failed",
                                     TRUE, d.text)>>, d.calls)

handle_tools_call(request, id, notification, tr) ==
    IF notification THEN Handled(<<>>, <<>>)
    ELSE LET d == execute_tool(get_tool_name(request), request, tr)
         IN  IF d.ok
             THEN Handled(<<ResultResponse(id_json(id), ContentResult(d.text))>>, d.calls)
             ELSE Handled(<<ErrorResponse(id_json(id), -32000, "Tool execution failed",
                                          TRUE, d.text)>>, d.calls)

\* handle_ping without its early return for notifications
handle_ping_unguarded(id, notification) ==
    Handled(<<ResultResponse(id_json(id), EmptyResult)>>, <<>>)

handle_ping(id, notification) ==
    IF notification THEN Handled(<<>>, <<>>)
    ELSE Handled(<<ResultResponse(id_json(id), EmptyResult)>>, <<>>)

\* handle_unknown_method answering with the code of Invalid Request
handle_unknown_method_wrong_code(method, id, notification) ==
    IF notification THEN Handled(<<>>, <<>>)
    ELSE Handled(<<ErrorResponse(id_json(id), -32600, "Invalid Request",
                                 TRUE, <<"Unknown method: ", method>>)>>, <<>>)

handle_unknown_method(method, id, notification) ==
    IF notification THEN Handled(<<>>, <<>>)
    ELSE Handled(<<ErrorResponse(id_json(id), -32601, "Method not found",
                                 TRUE, <<"Unknown method: ", method>>)>>, <<>>)

\* the Err arm of from_str in handle_message, answering with a Parse error
ParseFailure_replies ==
    Handled(<<ErrorResponse(Null, -32700, "Parse error", FALSE, <<>>)>>, <<>>)

\* the Err arm of from_str in handle_message: return Ok(None)
ParseFailure == Handled(<<>>, <<>>)

\* McpProtocolHandler::handle_message; it always returns Ok(..)
ProtocolHandleMessage(message, tr) ==
    LET parsed == from_str(message)
        request == parsed.value
        method == get_method(request)
        id == get_id(request)
        notification == is_notification(id)
    IN  IF ~parsed.ok THEN ParseFailure
        ELSE IF method = ""
        THEN IF notification THEN Handled(<<>>, <<>>)
             ELSE Handled(<<ErrorResponse(id_json(id), -32600, "Invalid Request",
                                          TRUE, <<"Missing 'method' field">>)>>, <<>>)
        ELSE IF method = "initialize" THEN handle_initialize(id, notification)
        ELSE IF method = "tools/list" THEN handle_tools_list(id, notification)
        ELSE IF method = "tools/call" THEN handle_tools_call(request, id, notification, tr)
        ELSE IF method = "ping" THEN handle_ping(id, notification)
        ELSE handle_unknown_method(method, id, notification)

(* ---------------------------------------------------------------------- *)
(* McpServer (src/mcp/server.rs)                                           *)
(* ---------------------------------------------------------------------- *)

\* the `match tool_name` of the tools/call arm: the Response handed to
\* send_response (none when an `if let Some(arg)` finds no argument)
McpServerToolsCall(request, id, tr) ==
    LET tool_name == get_tool_name(request)
        d == McpToolsCall(tool_name, tr)
        reply == IF d.ok
                 THEN ResultResponse(id_json(id), ContentResult(d.text))
                 ELSE ErrorResponse(id_json(id), -32000, "Tool execution failed",
                                    TRUE, d.text)
    IN  IF tool_name \in ArgCheckedTools
        THEN IF has_argument(request) THEN Handled(<<reply>>, d.calls)
             ELSE Handled(<<>>, <<>>)
        ELSE IF tool_name \in {"list_services", "generate_documentation",
                               "update_documentation", "automated_documentation_workflow",
                               "detect_service_name", "get_repository_info"}
        THEN Handled(<<reply>>, d.calls)
        ELSE Handled(<<ErrorResponse(id_json(id), -32601, "Method not found",
                                     TRUE, <<"Unknown tool: ", tool_name>>)>>, <<>>)

\* McpServer::handle_message up to its send_response: the Response it sends
McpServerHandleMessage(message, tr) ==
    LET parsed == from_str(message)
        request == parsed.value
        method == get_method(request)
        id == get_id(request)
        notification == is_notification(id)
    IN  IF ~parsed.ok THEN Handled(<<>>, <<>>)
        ELSE IF method = ""
        THEN IF notification THEN Handled(<<>>, <<>>)
             ELSE Handled(<<ErrorResponse(id[1], -32600, "Invalid Request",
                                          TRUE, <<"Missing 'method' field">>)>>, <<>>)
        ELSE IF notification THEN Handled(<<>>, <<>>)
        ELSE IF method = "initialize"
        THEN Handled(<<ResultResponse(id[1],
                          InitializeResult(ServerName, ServerVersion))>>, <<>>)
        ELSE IF method = "tools/list"
        THEN Handled(<<ResultResponse(id[1], ToolsResult(McpServerTools))>>, <<>>)
        ELSE IF method = "tools/call" THEN McpServerToolsCall(request, id, tr)
        ELSE IF method = "ping"
        THEN Handled(<<ResultResponse(id_json(id), EmptyResult)>>, <<>>)
        ELSE Handled(<<ErrorResponse(id_json(id), -32601, "Method not found",
                                     TRUE, <<"Unknown method: ", method>>)>>, <<>>)

\* KtmeError::Io(e).to_string() of a failed write
IoErrorText == <<"I/O error: ", "write failed">>

\* the Err arm of run_stdio_server: the -32603 Response for a line whose
\* handling failed, when the line parses and has a non-null id
McpServerInternalError(trimmed) ==
    LET parsed == from_str(trimmed)
        request_id == get_id(parsed.value)
    IN  IF parsed.ok /\ request_id # <<>> /\ request_id[1] # Null
        THEN <<ErrorResponse(request_id[1], -32603, "Internal error", TRUE, IoErrorText)>>
        ELSE <<>>

(* ---------------------------------------------------------------------- *)
(* StdioServer (src/mcp/stdio_server.rs)                                   *)
(* ---------------------------------------------------------------------- *)

\* the `match tool_name` of the tools/call arm: always a text
StdioServerToolText(request, tr) ==
    LET tool_name == get_tool_name(request)
        d == McpToolsCall(tool_name, tr)
        text == IF d.ok THEN d.text ELSE <<"Error: ">> \o d.text
    IN  IF tool_name = "read_changes"
        THEN IF has_argument(request) THEN Dispatch(TRUE, text, d.calls)
             ELSE Dispatch(TRUE, <<"Error: No source provided">>, <<>>)
        ELSE IF tool_name = "get_service_mapping"
        THEN IF has_argument(request) THEN Dispatch(TRUE, text, d.calls)
             ELSE Dispatch(TRUE, <<"Error: No service provided">>, <<>>)
        ELSE IF tool_name \in {"list_services", "generate_documentation",
                               "update_documentation"}
        THEN Dispatch(TRUE, text, d.calls)
        ELSE Dispatch(TRUE, <<"Unknown tool: ", tool_name>>, <<>>)

\* StdioServer::handle_message up to its send_response, for a parsed request
StdioServerHandleMessage(request, tr) ==
    LET method == get_method(request)
        id == get_id(request)
        notification == id = <<>>
    IN  IF notification THEN Handled(<<>>, <<>>)
        ELSE IF method = "initialize"
        THEN Handled(<<ResultResponse(id[1],
                          InitializeResult("ktme-mcp-server", "0.1.0"))>>, <<>>)
        ELSE IF method = "tools/list"
        THEN Handled(<<ResultResponse(id[1], ToolsResult(StdioServerTools))>>, <<>>)
        ELSE IF method = "tools/call"
        THEN LET d == StdioServerToolText(request, tr)
             IN  Handled(<<ResultResponse(id[1], ContentResult(d.text))>>, d.calls)
        ELSE Handled(<<ErrorResponse(id[1], -32601, "Method not found", FALSE, <<>>)>>,
                     <<>>)

\* the parse step of StdioServer::run: the -32700 Response for a line that
\* does not parse
StdioServerParseError ==
    ErrorResponse(Null, -32700, "Parse error", FALSE, <<>>)

\* the Err arm of StdioServer::run
StdioServerInternalError(request) ==
    LET id == get_id(request)
        request_id == IF id = <<>> THEN Null ELSE id[1]
    IN  ErrorResponse(request_id, -32603, "Internal error", FALSE, <<>>)

(* ---------------------------------------------------------------------- *)
(* State machine                                                           *)
(* ---------------------------------------------------------------------- *)

NoLine == [shape |-> "none", id |-> Absent, method |-> Absent, params |-> NoParams]

IdleTool == [ok |-> TRUE, msg |-> "out"]

\* the names a server is configured with: the one of the command line
\* (cli/commands/mcp.rs) and the one of the handler's unit tests
ServerNames == {"ktme-mcp-server", "test-server"}

\* a line of text on the output stream that is no JSON document
Text(t) == [text |-> t]

\* ServerConfig.transport as cli `start` sets it
transport(daemon, stdio) ==
    IF stdio THEN "stdio" ELSE IF daemon THEN "sse" ELSE "stdio"

CommandLine(daemon, stdio) ==
    IF daemon
    THEN IF stdio THEN "mcp start --stdio --daemon" ELSE "mcp start --daemon"
    ELSE IF stdio THEN "mcp start --stdio" ELSE "mcp start"

\* the ServerConfig cli `start` builds; port is an Option
ServerConfig(daemon, stdio) ==
    [transport |-> transport(daemon, stdio),
     port |-> IF daemon \/ ~stdio THEN <<3000>> ELSE <<>>]

\* a session without an McpServer has no ServerConfig
NoConfig == [transport |-> "none", port |-> <<>>]

\* McpServer::start running the network loop also when no port is configured
start_transport_any_port(cfg) ==
    IF cfg.transport = "stdio" THEN "mcp"
    ELSE IF cfg.transport \in {"sse", "http"} THEN "sse"
    ELSE "ConfigErr"

\* McpServer::start, its match on the transport: "mcp" is run_stdio_server,
\* "sse" is run_sse_server, "ConfigErr" is Err(KtmeError::Config(..))
start_transport(cfg) ==
    IF cfg.transport = "stdio" THEN "mcp"
    ELSE IF cfg.transport \in {"sse", "http"}
    THEN IF cfg.port # <<>> THEN "sse" ELSE "ConfigErr"
    ELSE "ConfigErr"

\* cli `start`: the configured name, the loop it runs (StdioServer::run, or
\* the loop McpServer::start picks) and what it has printed on stdout before
\* that loop runs
start(daemon, stdio) ==
    [ server_name |-> "ktme-mcp-server",
      config |-> ServerConfig(daemon, stdio),
      runs |-> IF ~daemon /\ stdio THEN "stdio"
               ELSE start_transport(ServerConfig(daemon, stdio)),
      stdout |-> IF daemon
                 THEN IF stdio THEN <<>>
                      ELSE << Text("ktme MCP server started in daemon mode on http://localhost:3000"),
                              Text("Configure your AI assistant to connect to: http://localhost:3000") >>
                 ELSE IF stdio THEN <<>>
                 ELSE << Text("ktme MCP server started in STDIO mode"),
                         Text("Ready for Claude Code integration"),
                         Text("Use --stdio flag for clean MCP protocol output") >> ]

\* the per-line variables before any line is read
NoLineYet ==
    /\ nread = 0
    /\ cur = NoLine
    /\ curTool = IdleTool
    /\ curWrite = <<"ok", "ok">>
    /\ produced = <<>>
    /\ ret = "none"
    /\ ran = <<>>
    /\ wrote = <<>>
    /\ toolCalls = <<>>

\* no network loop runs in a stream session
NetOff ==
    /\ netpc = "off"
    /\ conns = <<>>
    /\ stopCalls = 0

\* a session: McpProtocolHandler::new(name, version) called directly, or one
\* of the command lines that run a stream loop
Init ==
    /\ \/ /\ started = "McpProtocolHandler::new"
          /\ config = NoConfig
          /\ server = "protocol"
          /\ server_name \in ServerNames
          /\ out = <<>>
       \/ \E daemon \in BOOLEAN, stdio \in BOOLEAN :
             LET s == start(daemon, stdio)
             IN  /\ s.runs # "sse"
                 /\ started = CommandLine(daemon, stdio)
                 /\ config = s.config
                 /\ server = s.runs
                 /\ server_name = s.server_name
                 /\ out = s.stdout
    /\ pc = "loop"
    /\ exit = "none"
    /\ NoLineYet
    /\ NetOff

\* The environment's choices that cannot matter are fixed in the actions: the
\* outcome of a tool that does not run, of a write that does not happen.
Relevant(line, tr, w1, w2) ==
    /\ (line.method # "tools/call" => tr = IdleTool)
    /\ (w1 = "ok" => w2 = "ok")

\* send_response (write_all, write_all, flush) of one line: what reaches the stream
write_line(response, w) == IF w \in {"ok", "partial"} THEN <<response>> ELSE <<>>

\* send_response dropping the error of its writes
send_response_swallowed(w) == "Ok"

\* send_response: its Result; each of its three writes carries `?`
send_response(w) == IF w = "ok" THEN "Ok" ELSE "Err"

\* one call of McpProtocolHandler::handle_message(message)
ProtocolCall(message, tr) ==
    /\ server = "protocol"
    /\ pc = "loop"
    /\ nread < MaxLines
    /\ Relevant(message, tr, "ok", "ok")
    /\ LET h == ProtocolHandleMessage(message, tr)
       IN  /\ (h.calls = <<>> => tr = IdleTool)
           /\ produced' = h.resp
           /\ ran' = h.calls
           /\ toolCalls' = toolCalls \o h.calls
    /\ ret' = "Ok"
    /\ cur' = message
    /\ curTool' = tr
    /\ nread' = nread + 1
    /\ UNCHANGED <<started, config, server, server_name, pc, exit, curWrite, wrote, out,
                   netpc, conns, stopCalls>>

\* the step putting what it writes in front of what was written before
Step_prepends(line, tr, w1, w2, resp, r, calls, lines) ==
    /\ nread' = nread + 1
    /\ cur' = line
    /\ curTool' = tr
    /\ curWrite' = <<w1, w2>>
    /\ produced' = resp
    /\ ret' = r
    /\ ran' = calls
    /\ toolCalls' = toolCalls \o calls
    /\ wrote' = lines
    /\ out' = lines \o out

\* the line is handled: what the step leaves in the per-line variables
Step(line, tr, w1, w2, resp, r, calls, lines) ==
    /\ nread' = nread + 1
    /\ cur' = line
    /\ curTool' = tr
    /\ curWrite' = <<w1, w2>>
    /\ produced' = resp
    /\ ret' = r
    /\ ran' = calls
    /\ toolCalls' = toolCalls \o calls
    /\ wrote' = lines
    /\ out' = out \o lines

\* McpServer::run_stdio_server, the Ok(_) arm of read_line: one line is read,
\* handled, and its response (or the -32603 of a failed handling) is written
McpServerLine(line, tr, w1, w2) ==
    /\ server = "mcp"
    /\ pc = "loop"
    /\ nread < MaxLines
    /\ Relevant(line, tr, w1, w2)
    /\ UNCHANGED <<started, config, server, server_name, netpc, conns, stopCalls>>
    /\ IF line.shape = "blank"
       THEN /\ tr = IdleTool /\ w1 = "ok"
            /\ Step(line, tr, w1, w2, <<>>, "skipped", <<>>, <<>>)
            /\ UNCHANGED <<pc, exit>>
       ELSE LET h == McpServerHandleMessage(line, tr)
                internal == McpServerInternalError(line)
            IN  /\ (h.calls = <<>> => tr = IdleTool)
                /\ IF h.resp = <<>>
                   THEN /\ w1 = "ok"
                        /\ Step(line, tr, w1, w2, h.resp, "Ok", h.calls, <<>>)
                        /\ UNCHANGED <<pc, exit>>
                   ELSE IF send_response(w1) = "Ok"
                   THEN /\ Step(line, tr, w1, w2, h.resp, "Ok", h.calls,
                                write_line(h.resp[1], w1))
                        /\ UNCHANGED <<pc, exit>>
                   ELSE IF internal = <<>>
                   THEN /\ w2 = "ok"
                        /\ Step(line, tr, w1, w2, h.resp, "Err", h.calls,
                                write_line(h.resp[1], w1))
                        /\ UNCHANGED <<pc, exit>>
                   ELSE /\ Step(line, tr, w1, w2, h.resp, "Err", h.calls,
                                write_line(h.resp[1], w1) \o write_line(internal[1], w2))
                        /\ pc' = IF send_response(w2) = "Ok" THEN pc ELSE "exited"
                        /\ exit' = IF send_response(w2) = "Ok" THEN exit ELSE "Err"

\* the loop is left: `line` and what was computed from it go out of scope
LoopLocalsDropped ==
    /\ cur' = NoLine
    /\ curTool' = IdleTool
    /\ curWrite' = <<"ok", "ok">>
    /\ produced' = <<>>
    /\ ret' = "none"
    /\ ran' = <<>>
    /\ wrote' = <<>>

\* McpServer::run_stdio_server, the Ok(0) arm: end of input
McpServerEof ==
    /\ server = "mcp"
    /\ pc = "loop"
    /\ pc' = "exited"
    /\ exit' = "Ok"
    /\ LoopLocalsDropped
    /\ UNCHANGED <<started, config, server, server_name, nread, out, toolCalls,
                   netpc, conns, stopCalls>>

\* McpServer::run_stdio_server, the Err(e) arm: reading stdin failed
McpServerReadError ==
    /\ server = "mcp"
    /\ pc = "loop"
    /\ pc' = "exited"
    /\ exit' = "Ok"
    /\ LoopLocalsDropped
    /\ UNCHANGED <<started, config, server, server_name, nread, out, toolCalls,
                   netpc, conns, stopCalls>>

\* StdioServer::run, the Ok(_) arm of read_line
StdioServerLine(line, tr, w1, w2) ==
    /\ server = "stdio"
    /\ pc = "loop"
    /\ nread < MaxLines
    /\ Relevant(line, tr, w1, w2)
    /\ UNCHANGED <<started, config, server, server_name, pc, exit, netpc, conns, stopCalls>>
    /\ IF line.shape = "blank"
       THEN /\ tr = IdleTool /\ w1 = "ok"
            /\ Step(line, tr, w1, w2, <<>>, "skipped", <<>>, <<>>)
       ELSE IF ~from_str(line).ok
       THEN /\ tr = IdleTool /\ w2 = "ok"
            /\ Step(line, tr, w1, w2, <<StdioServerParseError>>, "none", <<>>,
                    write_line(StdioServerParseError, w1))
       ELSE LET request == from_str(line).value
                h == StdioServerHandleMessage(request, tr)
            IN  /\ (h.calls = <<>> => tr = IdleTool)
                /\ IF h.resp = <<>>
                   THEN /\ w1 = "ok"
                        /\ Step(line, tr, w1, w2, h.resp, "Ok", h.calls, <<>>)
                   ELSE IF send_response(w1) = "Ok"
                   THEN Step(line, tr, w1, w2, h.resp, "Ok", h.calls,
                             write_line(h.resp[1], w1))
                   ELSE Step(line, tr, w1, w2, h.resp, "Err", h.calls,
                             write_line(h.resp[1], w1)
                               \o write_line(StdioServerInternalError(request), w2))

\* StdioServer::run, the Ok(0) arm: end of input
StdioServerEof ==
    /\ server = "stdio"
    /\ pc = "loop"
    /\ pc' = "exited"
    /\ exit' = "Ok"
    /\ LoopLocalsDropped
    /\ UNCHANGED <<started, config, server, server_name, nread, out, toolCalls,
                   netpc, conns, stopCalls>>

\* StdioServer::run, the Err(_) arm: reading stdin failed
StdioServerReadError ==
    /\ server = "stdio"
    /\ pc = "loop"
    /\ pc' = "exited"
    /\ exit' = "Ok"
    /\ LoopLocalsDropped
    /\ UNCHANGED <<started, config, server, server_name, nread, out, toolCalls,
                   netpc, conns, stopCalls>>

Next ==
    \/ \E line \in Lines, tr \in ToolResults : ProtocolCall(line, tr)
    \/ \E line \in Lines, tr \in ToolResults, w1 \in WriteResults, w2 \in WriteResults :
          McpServerLine(line, tr, w1, w2)
    \/ McpServerEof
    \/ McpServerReadError
    \/ \E line \in Lines, tr \in ToolResults, w1 \in WriteResults, w2 \in WriteResults :
          StdioServerLine(line, tr, w1, w2)
    \/ StdioServerEof
    \/ StdioServerReadError

Spec == Init /\ [][Next]_vars

(* ---------------------------------------------------------------------- *)
(* Stream sessions whose writes may fail partway                           *)
(* ---------------------------------------------------------------------- *)

NextWrites ==
    \/ \E line \in Lines, tr \in ToolResults, w1 \in WriteModes, w2 \in WriteModes :
          McpServerLine(line, tr, w1, w2)
    \/ McpServerEof
    \/ McpServerReadError
    \/ \E line \in Lines, tr \in ToolResults, w1 \in WriteModes, w2 \in WriteModes :
          StdioServerLine(line, tr, w1, w2)
    \/ StdioServerEof
    \/ StdioServerReadError

SpecWrites == Init /\ [][NextWrites]_vars

(* ---------------------------------------------------------------------- *)
(* Sessions that call every tool name                                      *)
(* ---------------------------------------------------------------------- *)

\* every name a catalog of the repository lists, a name none lists, and none
AllToolNames ==
    {"read_changes", "get_service_mapping", "list_services", "generate_documentation",
     "update_documentation", "search_services", "search_by_feature",
     "search_by_keyword", "automated_documentation_workflow", "detect_service_name",
     "get_repository_info", "nope", Absent}

\* tools/list and tools/call requests, with and without the arguments
ToolLines ==
    {[shape |-> "object", id |-> "1", method |-> "tools/list", params |-> NoParams]}
    \cup {[shape |-> "object", id |-> "1", method |-> "tools/call",
           params |-> [present |-> TRUE, name |-> n, args |-> a]] :
            n \in AllToolNames, a \in BOOLEAN}

\* the sessions of Spec reading such requests, every write succeeding
NextTools ==
    \/ \E line \in ToolLines, tr \in ToolResults : ProtocolCall(line, tr)
    \/ \E line \in ToolLines, tr \in ToolResults : McpServerLine(line, tr, "ok", "ok")
    \/ McpServerEof
    \/ \E line \in ToolLines, tr \in ToolResults : StdioServerLine(line, tr, "ok", "ok")
    \/ StdioServerEof

SpecTools == Init /\ [][NextTools]_vars

(* ---------------------------------------------------------------------- *)
(* McpServer::run_sse_server (src/mcp/server.rs), behind `mcp start --daemon` *)
(* ---------------------------------------------------------------------- *)

\* number of connections one run accepts
MaxConns == 2

\* number of calls of McpServer::stop in one run
MaxStops == 1

\* number of reads with data on one connection
MaxReads == 2

\* the bodies a client posts to /mcp: a request, a notification, no JSON
McpBodies ==
    { l \in Lines :
        \/ l.shape = "garbage"
        \/ /\ l.shape = "object" /\ l.params = NoParams
           /\ <<l.id, l.method>> \in {<<"1", "initialize">>, <<Absent, "ping">>} }

\* what a client sends on a connection: the requests of McpClient and of the
\* cli status and stop commands, and a request for an unknown path
HttpRequests ==
    {[method |-> "GET", path |-> "/status", body |-> NoLine],
     [method |-> "POST", path |-> "/shutdown", body |-> NoLine],
     [method |-> "GET", path |-> "/other", body |-> NoLine]}
    \cup {[method |-> "POST", path |-> "/mcp", body |-> b] : b \in McpBodies}

\* an event on a connection's socket, as the connection task sees it
Wrote(t) == [op |-> "write", text |-> t, doc |-> <<>>]
Read(r) == [op |-> "read", text |-> r.path, doc |-> <<>>]

\* the five write_all calls the task starts with
SseHeaders ==
    << Wrote("HTTP/1.1 200 OK"), Wrote("Content-Type: text/event-stream"),
       Wrote("Cache-Control: no-cache"), Wrote("Connection: close"), Wrote("") >>

\* McpServer::start has matched "sse" and calls run_sse_server(3000)
InitNet ==
    /\ LET s == start(TRUE, FALSE)
       IN  /\ s.runs = "sse"
           /\ started = CommandLine(TRUE, FALSE)
           /\ config = s.config
           /\ server = s.runs
           /\ server_name = s.server_name
           /\ out = s.stdout
    /\ pc = "off"
    /\ exit = "none"
    /\ NoLineYet
    /\ netpc = "binding"
    /\ conns = <<>>
    /\ stopCalls = 0

\* TcpListener::bind(..).await?
Bind(ok) ==
    /\ netpc = "binding"
    /\ netpc' = IF ok THEN "accepting" ELSE "returned"
    /\ UNCHANGED <<conns, stopCalls>>
    /\ UNCHANGED streamVars

\* the loop handling a connection inline: it accepts the next one only when
\* the tasks of all earlier ones have ended
Accept_inline(request) ==
    /\ netpc = "accepting"
    /\ Len(conns) < MaxConns
    /\ \A c \in DOMAIN conns : conns[c].task = "done"
    /\ conns' = Append(conns, [request |-> request, task |-> "spawned",
                               events |-> <<>>])
    /\ UNCHANGED <<netpc, stopCalls>>
    /\ UNCHANGED streamVars

\* listener.accept() gives a socket: its task is spawned, the loop goes on
Accept(request) ==
    /\ netpc = "accepting"
    /\ Len(conns) < MaxConns
    /\ conns' = Append(conns, [request |-> request, task |-> "spawned",
                               events |-> <<>>])
    /\ UNCHANGED <<netpc, stopCalls>>
    /\ UNCHANGED streamVars

\* listener.accept().await? fails: run_sse_server returns the error
AcceptError ==
    /\ netpc = "accepting"
    /\ netpc' = "returned"
    /\ UNCHANGED <<conns, stopCalls>>
    /\ UNCHANGED streamVars

\* the spawned task writes the SSE headers; `let _ =` ignores failed writes
TaskSendHeaders(c, w) ==
    /\ netpc = "accepting"
    /\ c \in DOMAIN conns
    /\ conns[c].task = "spawned"
    /\ conns' = [conns EXCEPT ![c].task = "reading",
                              ![c].events = IF w = "ok" THEN SseHeaders ELSE <<>>]
    /\ UNCHANGED <<netpc, stopCalls>>
    /\ UNCHANGED streamVars

\* the reads with data the task of connection c has made
Reads(c) == {i \in DOMAIN conns[c].events : conns[c].events[i].op = "read"}

\* reader.read gives Ok(n): the bytes become `_request`, nothing is done with
\* it, and the loop reads again (the peer may send the request once more)
TaskRead(c) ==
    /\ netpc = "accepting"
    /\ c \in DOMAIN conns
    /\ conns[c].task = "reading"
    /\ Cardinality(Reads(c)) < MaxReads
    /\ conns' = [conns EXCEPT ![c].events = Append(@, Read(conns[c].request))]
    /\ UNCHANGED <<netpc, stopCalls>>
    /\ UNCHANGED streamVars

\* reader.read gives Ok(0) or Err(_): the task ends and drops the socket
TaskReadEnd(c) ==
    /\ netpc = "accepting"
    /\ c \in DOMAIN conns
    /\ conns[c].task = "reading"
    /\ conns' = [conns EXCEPT ![c].task = "done"]
    /\ UNCHANGED <<netpc, stopCalls>>
    /\ UNCHANGED streamVars

\* McpServer::stop: a log line and Ok(())
Stop ==
    /\ netpc # "off"
    /\ stopCalls < MaxStops
    /\ stopCalls' = stopCalls + 1
    /\ UNCHANGED <<netpc, conns>>
    /\ UNCHANGED streamVars

NextNet ==
    \/ \E ok \in BOOLEAN : Bind(ok)
    \/ \E request \in HttpRequests : Accept(request)
    \/ AcceptError
    \/ \E c \in 1..MaxConns, w \in WriteResults : TaskSendHeaders(c, w)
    \/ \E c \in 1..MaxConns : TaskRead(c)
    \/ \E c \in 1..MaxConns : TaskReadEnd(c)
    \/ Stop

SpecNet == InitNet /\ [][NextNet]_vars

(* ---------------------------------------------------------------------- *)
(* McpServer::start (src/mcp/server.rs) with any configuration             *)
(* ---------------------------------------------------------------------- *)

\* transport names: the three start matches, another one, and the empty one
Transports == {"stdio", "sse", "http", "websocket", ""}

Ports == {<<>>, <<3000>>}

\* McpServer::new(config) has returned; start has not been called yet
InitStart ==
    /\ started = "McpServer::start"
    /\ config \in [transport : Transports, port : Ports]
    /\ server = "McpServer"
    /\ server_name \in ServerNames
    /\ out = <<>>
    /\ pc = "start"
    /\ exit = "none"
    /\ NoLineYet
    /\ NetOff

\* McpServer::start: one loop is entered, or the configuration error returned
McpServerStart ==
    /\ pc = "start"
    /\ LET r == start_transport(config)
       IN  /\ server' = IF r = "ConfigErr" THEN server ELSE r
           /\ pc' = IF r = "mcp" THEN "loop" ELSE IF r = "sse" THEN "off" ELSE "exited"
           /\ exit' = IF r = "ConfigErr" THEN "ConfigErr" ELSE exit
           /\ netpc' = IF r = "sse" THEN "binding" ELSE netpc
    /\ UNCHANGED <<started, config, server_name, nread, cur, curTool, curWrite,
                   produced, ret, ran, wrote, out, toolCalls, conns, stopCalls>>

\* start, then the loop it entered: the stream loop with writes that
\* succeed, or bind and accept of the network loop
NextStart ==
    \/ McpServerStart
    \/ \E line \in Lines, tr \in ToolResults : McpServerLine(line, tr, "ok", "ok")
    \/ McpServerEof
    \/ \E ok \in BOOLEAN : Bind(ok)
    \/ \E request \in HttpRequests : Accept(request)
    \/ AcceptError

SpecStart == InitStart /\ [][NextStart]_vars

TypeOK ==
    /\ server \in Handlers \cup {"sse", "McpServer"}
    /\ pc \in {"start", "loop", "exited", "off"}
    /\ exit \in {"none", "Ok", "Err"}
    /\ nread \in 0..MaxLines
    /\ cur \in Lines \cup {NoLine}
    /\ curTool \in ToolResults
    /\ ret \in {"none", "Ok", "Err", "skipped"}
    /\ Len(produced) <= 1
    /\ Len(wrote) <= 2

(* ---------------------------------------------------------------------- *)
(* Properties                                                              *)
(* ---------------------------------------------------------------------- *)

\* a line has been handled (blank lines never reach a handler of the loops)
Handled1 == cur # NoLine /\ ret # "skipped"

Parses(line) == from_str(line).ok

\* the document has an `id` member (possibly null)
HasId(line) == line.shape = "object" /\ line.id # Absent

IsStringMethod(line) ==
    line.shape = "object" /\ line.method \notin {Absent, NonString}

KnownMethods == {"initialize", "tools/list", "tools/call", "ping"}

\* the names of the catalog the handler lists
CatalogNames(h) ==
    LET tools == IF h = "protocol" THEN get_tools_list
                 ELSE IF h = "mcp" THEN McpServerTools ELSE StdioServerTools
    IN  {tools[i].name : i \in DOMAIN tools}

IsErrorWith(resp, code, id) ==
    /\ Len(resp) = 1
    /\ resp[1].hasError /\ ~resp[1].hasResult
    /\ resp[1].error.code = code
    /\ resp[1].id = id

\* C1: a parsable message without an `id` member gets no response, whatever
\* its method is: the handler returns Ok with no Response, nothing is written.
C1_NotificationSilence ==
    (Handled1 /\ Parses(cur) /\ ~HasId(cur)) =>
        (produced = <<>> /\ ret = "Ok" /\ wrote = <<>>)

C1_Witness ==
    /\ server = "mcp" /\ cur.shape = "object" /\ cur.id = Absent
    /\ cur.method = "ping" /\ ret = "Ok" /\ produced = <<>> /\ nread = 2
    /\ Len(out) = 1

\* C2: handle_message (McpProtocolHandler, McpServer) returns Ok with no
\* Response for a payload that is no JSON document: no -32700, no failure.
C2_ParseErrorSilence ==
    (Handled1 /\ server \in {"protocol", "mcp"} /\ ~Parses(cur)) =>
        (produced = <<>> /\ ret = "Ok" /\ wrote = <<>>)

C2_Witness ==
    /\ server = "protocol" /\ cur.shape = "garbage" /\ ret = "Ok" /\ produced = <<>>

\* C3 (as claimed): in both stream loops a line is written only in answer to
\* an input line that parses and carries an `id`.
C3_OutputOnlyForRequests ==
    (server \in {"mcp", "stdio"} /\ wrote # <<>>) => (Parses(cur) /\ HasId(cur))

\* C4 (as claimed): id present and method missing, not a string or empty
\* gives an error Response -32600 with the message's id.
C4_InvalidRequest ==
    (Handled1 /\ Parses(cur) /\ HasId(cur) /\ get_method(cur) = "") =>
        IsErrorWith(produced, -32600, cur.id)

\* C5 (as claimed): id present and an unrecognized non-empty method gives an
\* error Response -32601 with the message's id.
C5_MethodNotFound_Claimed ==
    (Handled1 /\ HasId(cur) /\ IsStringMethod(cur)
       /\ cur.method \notin KnownMethods \cup {""}) =>
        IsErrorWith(produced, -32601, cur.id)

\* C5 (amended): id present and not null, and an unrecognized non-empty
\* method, gives an error Response -32601 with the message's id.
C5_MethodNotFound ==
    (Handled1 /\ HasId(cur) /\ cur.id # Null /\ IsStringMethod(cur)
       /\ cur.method \notin KnownMethods \cup {""}) =>
        IsErrorWith(produced, -32601, cur.id)

C5_Witness ==
    /\ server = "stdio" /\ cur.id = "2" /\ cur.method = "unknown_method"
    /\ IsErrorWith(produced, -32601, "2") /\ wrote = produced

\* C6 (as claimed): a tools/call request whose params.name is no catalog
\* entry gives an error Response -32601 and runs no tool.
C6_UnknownTool ==
    (Handled1 /\ HasId(cur) /\ get_method(cur) = "tools/call"
       /\ get_tool_name(cur) \notin CatalogNames(server)) =>
        (IsErrorWith(produced, -32601, cur.id) /\ ran = <<>>)

\* C7 (as claimed): when a tools/call request runs a registered tool, success
\* with string s gives result.content = [{type:"text", text:s}] and failure
\* with message m gives error -32000 with data = m; never a success result.
C7_DispatcherOutcomeMapped ==
    (Handled1 /\ get_method(cur) = "tools/call" /\ ran # <<>>) =>
        LET d == McpToolsCall(get_tool_name(cur), curTool)
        IN  /\ Len(produced) = 1
            /\ d.ok => /\ produced[1].hasResult /\ ~produced[1].hasError
                       /\ produced[1].result = ContentResult(d.text)
            /\ ~d.ok => /\ IsErrorWith(produced, -32000, cur.id)
                        /\ produced[1].error.hasData
                        /\ produced[1].error.data = d.text

\* C8: a line without an `id` member never runs a tool, so the tools' side
\* effects are the same before and after it; a tool runs only for a
\* tools/call that has an `id`.
C8_NotificationRunsNoTool ==
    [][ (nread' = nread + 1) =>
          /\ ((~HasId(cur')) => toolCalls' = toolCalls)
          /\ (toolCalls' # toolCalls => (get_method(cur') = "tools/call" /\ HasId(cur')))
      ]_vars

C8_Witness ==
    /\ cur.shape = "object" /\ cur.id = Absent /\ cur.method = "tools/call"
    /\ cur.params.name = "update_documentation" /\ ret = "Ok"
    /\ toolCalls = <<"update_documentation">>

RegisteredNames ==
    <<"read_changes", "get_service_mapping", "list_services", "generate_documentation",
      "update_documentation", "search_services", "search_by_feature",
      "search_by_keyword", "automated_documentation_workflow", "detect_service_name",
      "get_repository_info">>

Outcome(h, line, tr) ==
    IF h = "protocol" THEN ProtocolHandleMessage(line, tr).resp
    ELSE IF h = "mcp" THEN McpServerHandleMessage(line, tr).resp
    ELSE IF ~from_str(line).ok THEN <<StdioServerParseError>>
    ELSE StdioServerHandleMessage(from_str(line).value, tr).resp

\* C10 (as claimed): for every input message the three handlers produce the
\* same Response or the same absence of a Response.
C10_HandlersAgree ==
    Handled1 => \A h \in Handlers : Outcome(h, cur, curTool) = produced

\* C11: an initialize message that a handler answers is answered with the
\* message's id, serverInfo.name equal to the configured server name and
\* protocolVersion "2024-11-05"; it is answered whenever its id is present
\* and not null.
C11_InitializeEchoesIdAndName ==
    (Handled1 /\ HasId(cur) /\ get_method(cur) = "initialize") =>
        /\ (cur.id # Null => Len(produced) = 1)
        /\ (produced # <<>> =>
               /\ produced[1].id = cur.id
               /\ produced[1].hasResult /\ ~produced[1].hasError
               /\ produced[1].result.serverName = server_name
               /\ produced[1].result.protocolVersion = "2024-11-05")

C11_Witness ==
    /\ server = "protocol" /\ server_name = "test-server"
    /\ cur.method = "initialize" /\ cur.id = "1"
    /\ Len(produced) = 1 /\ produced[1].id = "1"
    /\ produced[1].result.serverName = "test-server"

\* C12 (as claimed): in every handler a ping request with an id gets the
\* success Response with that id and the empty result object, and a ping
\* notification gets no Response.
C12_Ping ==
    (Handled1 /\ Parses(cur) /\ get_method(cur) = "ping") =>
        IF HasId(cur)
        THEN cur.id # Null => produced = <<ResultResponse(cur.id, EmptyResult)>>
        ELSE produced = <<>>

IsResponse(l) == "jsonrpc" \in DOMAIN l

\* C14: a stream session writes in the order it reads: the step that reads a
\* line finds every earlier response on the stream, appends what it writes
\* behind them, and writes only a response to the line it has just read.
C14_Fifo ==
    [][ (nread' = nread + 1) =>
          /\ out' = out \o wrote'
          /\ \A i \in DOMAIN wrote' :
                wrote'[i].id = (IF HasId(cur') THEN cur'.id ELSE Null)
      ]_vars

C14_Witness ==
    /\ started = "mcp start --stdio" /\ nread = 2 /\ Len(out) = 2
    /\ out[1].id = "1" /\ out[2].id = "2" /\ cur.id = "2" /\ wrote = <<out[2]>>

\* C15 (as claimed): a stream loop that has returned has returned success;
\* nothing but the end of the input makes it return.
C15_CleanExit ==
    (server \in {"mcp", "stdio"} /\ pc = "exited") => exit = "Ok"

\* C16 (as claimed): when handle_message returned an error, a -32603 is
\* written with the id of the line if the line parses and has one, nothing is
\* written otherwise, and no -32603 is ever written with a null id.
C16_InternalError ==
    (server \in {"mcp", "stdio"} /\ Handled1 /\ ret = "Err") =>
        /\ IF Parses(cur) /\ HasId(cur)
           THEN curWrite[2] = "ok" => IsErrorWith(wrote, -32603, cur.id)
           ELSE wrote = <<>>
        /\ \A i \in DOMAIN wrote :
              wrote[i].error.code = -32603 => wrote[i].id # Null

\* C17 (as claimed): whatever command line started stream mode, every line
\* on the output stream is a Response document.
C17_OnlyResponses ==
    server \in {"mcp", "stdio"} => \A i \in DOMAIN out : IsResponse(out[i])

\* the task of connection c has read the connection's request
RequestRead(c) == Reads(c) # {}

\* what the task of connection c wrote after it read the request
Replies(c) ==
    LET ev == conns[c].events
        r == CHOOSE i \in Reads(c) : \A j \in Reads(c) : i <= j
    IN  SubSeq(ev, r + 1, Len(ev))

\* a POST /shutdown request has been read by a connection task
ShutdownHandled ==
    \E c \in DOMAIN conns :
        /\ conns[c].request.method = "POST" /\ conns[c].request.path = "/shutdown"
        /\ RequestRead(c)

\* C18 (as claimed): once a POST /shutdown request has been handled, no
\* further connection is accepted.
C18_ShutdownStopsAccepting ==
    [][ ShutdownHandled => Len(conns') = Len(conns) ]_vars

\* C19 (as claimed): a connection whose task has ended after reading the
\* request had its response written, whether or not a shutdown request was
\* handled meanwhile.
C19_InFlightCompleted ==
    \A c \in DOMAIN conns :
        (conns[c].task = "done" /\ RequestRead(c)) => Replies(c) # <<>>

\* C20 (as claimed): for a POST /mcp connection the task answers with what
\* the Protocol Handler makes of the body: a Response gives 200 and the
\* Response as JSON body, no Response gives 204.
C20_McpStatusMapping ==
    \A c \in DOMAIN conns :
        (conns[c].task = "done" /\ RequestRead(c)
           /\ conns[c].request.method = "POST" /\ conns[c].request.path = "/mcp") =>
            LET h == ProtocolHandleMessage(conns[c].request.body, IdleTool).resp
                replies == Replies(c)
            IN  /\ replies # <<>>
                /\ IF h # <<>>
                   THEN /\ replies[1].text = "HTTP/1.1 200 OK"
                        /\ replies[Len(replies)].doc = h
                   ELSE /\ replies[1].text = "HTTP/1.1 204 No Content"
                        /\ \A i \in DOMAIN replies : replies[i].doc = <<>>

\* C21 (as claimed): a GET /status connection is answered 200 with a
\* document whose status is "running" and whose tools_count is the length of
\* the catalog tools/list returns.
C21_StatusDocument ==
    \A c \in DOMAIN conns :
        (conns[c].task = "done" /\ RequestRead(c)
           /\ conns[c].request.method = "GET" /\ conns[c].request.path = "/status") =>
            LET replies == Replies(c)
            IN  /\ \E i \in DOMAIN replies : replies[i].text = "HTTP/1.1 200 OK"
                /\ \E i \in DOMAIN replies :
                      /\ Len(replies[i].doc) = 1
                      /\ replies[i].doc[1].status = "running"
                      /\ replies[i].doc[1].tools_count = Len(get_tools_list)

\* C22 (as claimed): a connection task reads one request and no second one.
C22_OneRequestPerConnection ==
    \A c \in DOMAIN conns : Cardinality(Reads(c)) <= 1

\* the peer of connection c has sent nothing and has not closed
Stalled(c) == conns[c].task = "reading" /\ Reads(c) = {}

\* C23: while a connection is stalled the accept loop can accept the next
\* connection and the task of every other connection can take its next step:
\* no task and no accept waits on another connection.
C23_ConnectionsIndependent ==
    \A c \in DOMAIN conns :
        (netpc = "accepting" /\ Stalled(c)) =>
            /\ Len(conns) < MaxConns => ENABLED (\E r \in HttpRequests : Accept(r))
            /\ \A d \in DOMAIN conns \ {c} :
                  /\ conns[d].task = "spawned" => ENABLED TaskSendHeaders(d, "ok")
                  /\ conns[d].task = "reading" =>
                        /\ ENABLED TaskReadEnd(d)
                        /\ Cardinality(Reads(d)) < MaxReads => ENABLED TaskRead(d)

C23_Witness ==
    /\ netpc = "accepting" /\ Len(conns) = 2 /\ Stalled(1)
    /\ conns[2].task = "done" /\ Reads(2) # {}
    /\ conns[2].events[1] = SseHeaders[1]

\* C24 (as claimed): a step of a stream loop in which the write of the
\* response fails never leaves the loop with an error outcome.
C24_WriteFailureNoErrorExit ==
    [][ (server \in {"mcp", "stdio"} /\ nread' = nread + 1 /\ produced' # <<>>
           /\ curWrite'[1] # "ok") => exit' # "Err" ]_vars

\* C25 (as claimed): a message whose id is null gets no response and runs no
\* tool, whatever its method, in every handler.
C25_NullIdIsNotification ==
    (Handled1 /\ Parses(cur) /\ cur.shape = "object" /\ cur.id = Null) =>
        (produced = <<>> /\ wrote = <<>> /\ ran = <<>>)

\* the handler classifies the message as a request
IsRequest(h, line) ==
    Parses(line) /\ HasId(line) /\ (h = "stdio" \/ line.id # Null)

\* C26 (as claimed): every message a handler classifies as a request ends
\* with exactly one Response, also a tools/call whose params, name or
\* required argument is missing.
C26_RequestsAreAnswered ==
    (Handled1 /\ IsRequest(server, cur)) => Len(produced) = 1

\* a Response document with jsonrpc "2.0", exactly one of `result` and
\* `error`, and an integer code and a message in its `error`
WellFormed(r) ==
    /\ r.jsonrpc = "2.0"
    /\ r.hasResult # r.hasError
    /\ r.hasResult => r.result.shape # "none"
    /\ r.hasError => (r.error.code \in Int /\ r.error.message # "")

\* C27: every Response a handler makes and every Response document a stream
\* loop writes is well formed.
C27_ResponsesWellFormed ==
    /\ \A i \in DOMAIN produced : WellFormed(produced[i])
    /\ \A i \in DOMAIN out : IsResponse(out[i]) => WellFormed(out[i])

C27_Witness ==
    /\ server = "mcp" /\ started = "mcp start --stdio --daemon" /\ Len(out) = 2
    /\ out[1].hasResult /\ out[2].hasError /\ out[2].error.code = -32603
    /\ produced # <<>> /\ produced[1].hasError /\ produced[1].error.code = -32000

\* the Response says the tool is unknown (each handler in its own way)
AnsweredUnknownTool(resp) ==
    /\ Len(resp) = 1
    /\ LET said == IF resp[1].hasError THEN resp[1].error.data ELSE resp[1].result.text
       IN  \E i \in DOMAIN said : said[i] = "Unknown tool: "

\* C28: in each handler the names tools/list returns are pairwise distinct and
\* are the names tools/call dispatches: a listed name with its arguments
\* runs that tool, a listed name is never answered as unknown, and any other
\* name runs nothing and is answered as unknown.
C28_CatalogMatchesDispatcher ==
    /\ (Handled1 /\ get_method(cur) = "tools/list" /\ Len(produced) = 1) =>
          LET tools == produced[1].result.tools
          IN  /\ {tools[i].name : i \in DOMAIN tools} = CatalogNames(server)
              /\ \A i, j \in DOMAIN tools : tools[i].name = tools[j].name => i = j
    /\ (Handled1 /\ get_method(cur) = "tools/call" /\ IsRequest(server, cur)) =>
          IF get_tool_name(cur) \in CatalogNames(server)
          THEN /\ has_argument(cur) => ran = <<get_tool_name(cur)>>
               /\ ~AnsweredUnknownTool(produced)
          ELSE ran = <<>> /\ AnsweredUnknownTool(produced)

C28_Witness ==
    /\ server = "stdio" /\ nread = 2 /\ toolCalls = <<"update_documentation">>
    /\ cur.method = "tools/call" /\ cur.params.name = "search_by_keyword"
    /\ cur.params.args /\ AnsweredUnknownTool(produced) /\ ran = <<>>

\* C29 (as claimed): a stream loop writes at most one response document for
\* an input line, also when the write of the response fails partway.
C29_AtMostOneResponsePerLine ==
    (server \in {"mcp", "stdio"} /\ Handled1) => Len(wrote) <= 1

\* C30: McpServer::start enters the stream loop exactly for transport
\* "stdio", the network loop exactly for "sse" or "http" with a port, and in
\* every other case returns a configuration error with no loop entered;
\* never both loops.
C30_StartSelectsTransport ==
    LET stream == pc = "loop" \/ nread > 0 \/ exit \in {"Ok", "Err"}
        network == netpc # "off" \/ conns # <<>>
        failed == exit = "ConfigErr"
    IN  /\ ~(stream /\ network) /\ ~(stream /\ failed) /\ ~(network /\ failed)
        /\ stream => config.transport = "stdio"
        /\ network => (config.transport \in {"sse", "http"} /\ config.port # <<>>)
        /\ failed => /\ config.transport # "stdio"
                      /\ config.transport \in {"sse", "http"} => config.port = <<>>
                      /\ pc = "exited" /\ out = <<>>
        /\ (started = "McpServer::start" /\ pc # "start") =>
              (stream \/ network \/ failed \/ pc = "exited")

C30_Witness ==
    /\ started = "McpServer::start" /\ config.transport = "http"
    /\ config.port = <<>> /\ pc = "exited" /\ exit = "ConfigErr"
    /\ netpc = "off" /\ nread = 0

====
